---- MODULE Spec2Model ----
(***************************************************************************)
(* Model of the quiz service of src/app.py: the helper extract_video_id,   *)
(* the two provider wrappers fetch_transcript and generate_mcqs, and the   *)
(* route handler generate_quiz.                                            *)
(*                                                                         *)
(* Text is a sequence of one-character strings.  A Python call ends in an  *)
(* outcome: [kind |-> "return", value |-> v] or                            *)
(* [kind |-> "raise", exc |-> type, msg |-> message].                      *)
(*                                                                         *)
(* A URL string is given by the components urlparse splits it into:        *)
(*   scheme "://" netloc path [ "?" query ],                               *)
(* with the query given as the list of its "&"-separated pieces.           *)
(***************************************************************************)
EXTENDS Integers, Sequences, FiniteSets, TLC

VARIABLES op, input, output, calls

vars == <<op, input, output, calls>>

----------------------------------------------------------------------------
(* Bounds of the model *)

\* most "&"-separated pieces in a query string
MaxParams == 2

\* most caption fragments in a fetched transcript
MaxFrags == 2

\* most characters in the text the generation provider answers with
MaxGenLen == 3

----------------------------------------------------------------------------
(* Python outcomes *)

Return(v) == [kind |-> "return", value |-> v]

Raise(e, m) == [kind |-> "raise", exc |-> e, msg |-> m]

\* the exception classes outside Exception: they derive from BaseException
\* alone, and `except Exception` lets them pass
BaseExceptionOnly == {"KeyboardInterrupt", "SystemExit", "GeneratorExit"}

\* isinstance(e, Exception) for a raise of class exc
IsException(exc) == exc \notin BaseExceptionOnly

\* sequences over S of length at most n
SeqUpTo(S, n) == UNION {[1..k -> S] : k \in 0..n}

----------------------------------------------------------------------------
(* URLs *)

WatchPath == <<"/", "w", "a", "t", "c", "h">>

\* the network locations of the model; "[x" is an unbalanced IPv6 bracket
Netlocs == {"youtu.be", "YouTu.be:443", "www.youtube.com", "youtube.com",
            "m.youtube.com", "example.com", "", "[x"}

Paths == {<<>>, <<"/">>, <<"/", "a", "b">>, WatchPath, WatchPath \o <<"/">>}

\* the pieces a query string is made of ("&" separates them)
Pieces == {<<>>, <<"v">>, <<"v", "=">>, <<"v", "=", "a">>, <<"v", "=", "b">>,
           <<"v", "=", "a", "+", "b">>, <<"v", "=", "=", "a">>,
           <<"t", "=", "a">>, <<"v", "v", "=", "a">>, <<"=", "a">>}

Url(n, p, q) == [type |-> "str", scheme |-> "https", netloc |-> n, path |-> p, query |-> q]

\* the empty string ""
EmptyStr == [type |-> "str", scheme |-> "", netloc |-> "", path |-> <<>>, query |-> <<>>]

\* JSON null and the JSON numbers 0 and 123
None == [type |-> "NoneType"]

JsonInt(n) == [type |-> "int", n |-> n]

\* JSON true and false
JsonBool(b) == [type |-> "bool", b |-> b]

\* a JSON object, items a function of its keys, and a JSON array, items a
\* sequence
Dict(items) == [type |-> "dict", items |-> items]

List(items) == [type |-> "list", items |-> items]

\* the objects and arrays without members
EmptyDict == Dict([k \in {} |-> None])

EmptyList == List(<<>>)

\* Python truth of a JSON value: None, False, 0, "", {} and [] are false
Truthy(v) ==
    CASE v.type = "NoneType" -> FALSE
      [] v.type = "bool" -> v.b
      [] v.type = "int" -> v.n # 0
      [] v.type = "str" -> v # EmptyStr
      [] v.type = "dict" -> DOMAIN v.items # {}
      [] v.type = "list" -> Len(v.items) # 0

URLs == {Url(n, p, q) : n \in Netlocs, p \in Paths, q \in SeqUpTo(Pieces, MaxParams)}
            \cup {EmptyStr}

\* ParseResult.hostname: the host of the netloc in lower case, without
\* user info and port; None (here "None") without a netloc
Hostname(netloc) ==
    CASE netloc = "youtu.be" -> "youtu.be"
      [] netloc = "YouTu.be:443" -> "youtu.be"
      [] netloc = "www.youtube.com" -> "www.youtube.com"
      [] netloc = "youtube.com" -> "youtube.com"
      [] netloc = "m.youtube.com" -> "m.youtube.com"
      [] netloc = "example.com" -> "example.com"
      [] OTHER -> "None"

\* urlparse: a "[" without "]" in the netloc raises ValueError.  Of the
\* values that are not strings, urllib's _coerce_args reads a false one
\* (None, False, 0, {}, []) as the empty URL, and raises AttributeError on a true one, which
\* has no decode
urlparse(youtube_url) ==
    IF youtube_url.type # "str" /\ Truthy(youtube_url)
    THEN Raise("AttributeError", "decode")
    ELSE IF youtube_url.type # "str"
    THEN Return([hostname |-> "None", path |-> <<>>, query |-> <<>>])
    ELSE IF youtube_url.netloc = "[x" THEN Raise("ValueError", "Invalid IPv6 URL")
    ELSE Return([hostname |-> Hostname(youtube_url.netloc),
                 path |-> youtube_url.path,
                 query |-> youtube_url.query])

\* index of the first c in s, 0 when there is none
RECURSIVE IndexFrom(_, _, _)
IndexFrom(s, c, i) ==
    IF i > Len(s) THEN 0
    ELSE IF s[i] = c THEN i
    ELSE IndexFrom(s, c, i + 1)

\* unquote(s.replace('+', ' ')) on text without "%"
PlusToSpace(s) == [i \in 1..Len(s) |-> IF s[i] = "+" THEN " " ELSE s[i]]

\* urllib.parse.parse_qsl with keep_blank_values=False, strict_parsing=False:
\* the (name, value) pairs of the pieces that have "=" and a value
RECURSIVE parse_qsl(_)
parse_qsl(query) ==
    IF query = <<>> THEN <<>>
    ELSE LET name_value == Head(query)
             eq == IndexFrom(name_value, "=", 1)
             rest == parse_qsl(Tail(query))
         IN  IF name_value = <<>> THEN rest
             ELSE IF eq = 0 THEN rest
             ELSE IF eq = Len(name_value) THEN rest
             ELSE <<[name |-> PlusToSpace(SubSeq(name_value, 1, eq - 1)),
                     value |-> PlusToSpace(SubSeq(name_value, eq + 1, Len(name_value)))]>>
                  \o rest

\* parse_qs(query)[key]: the values of key in order; KeyError without one
parse_qs_get(query, key) ==
    LET pairs == parse_qsl(query)
        idx == {i \in 1..Len(pairs) : pairs[i].name = key}
        RECURSIVE Values(_)
        Values(i) == IF i > Len(pairs) THEN <<>>
                     ELSE IF i \in idx THEN <<pairs[i].value>> \o Values(i + 1)
                     ELSE Values(i + 1)
    IN  IF idx = {} THEN Raise("KeyError", "v") ELSE Return(Values(1))

\* extract_video_id accepting every host that ends in youtube.com
extract_video_id_any_subdomain(youtube_url) ==
    LET parsed == urlparse(youtube_url)
        parsed_url == parsed.value
    IN  IF parsed.kind = "raise" THEN parsed
        ELSE IF parsed_url.hostname = "youtu.be"
             THEN Return(SubSeq(parsed_url.path, 2, Len(parsed_url.path)))
        ELSE IF parsed_url.hostname \in {"www.youtube.com", "youtube.com", "m.youtube.com"}
                /\ parsed_url.path = WatchPath
             THEN LET v == parse_qs_get(parsed_url.query, <<"v">>)
                  IN  IF v.kind = "raise" THEN v ELSE Return(v.value[1])
        ELSE Raise("ValueError", "Invalid YouTube URL")

\* extract_video_id taking the last value of v, ['v'][-1]
extract_video_id_last_v(youtube_url) ==
    LET parsed == urlparse(youtube_url)
        parsed_url == parsed.value
    IN  IF parsed.kind = "raise" THEN parsed
        ELSE IF parsed_url.hostname = "youtu.be"
             THEN Return(SubSeq(parsed_url.path, 2, Len(parsed_url.path)))
        ELSE IF parsed_url.hostname \in {"www.youtube.com", "youtube.com"}
                /\ parsed_url.path = WatchPath
             THEN LET v == parse_qs_get(parsed_url.query, <<"v">>)
                  IN  IF v.kind = "raise" THEN v ELSE Return(v.value[Len(v.value)])
        ELSE Raise("ValueError", "Invalid YouTube URL")

extract_video_id(youtube_url) ==
    LET parsed == urlparse(youtube_url)
        parsed_url == parsed.value
    IN  IF parsed.kind = "raise" THEN parsed
        ELSE IF parsed_url.hostname = "youtu.be"
             THEN Return(SubSeq(parsed_url.path, 2, Len(parsed_url.path)))
        ELSE IF parsed_url.hostname \in {"www.youtube.com", "youtube.com"}
                /\ parsed_url.path = WatchPath
             THEN LET v == parse_qs_get(parsed_url.query, <<"v">>)
                  IN  IF v.kind = "raise" THEN v ELSE Return(v.value[1])
        ELSE Raise("ValueError", "Invalid YouTube URL")

----------------------------------------------------------------------------
(* The transcript provider (youtube_transcript_api) *)

\* a caption fragment as the provider delivers it
Fragment(t) == [text |-> t, start |-> 0, duration |-> 1]

FragTexts == {<<>>, <<"a">>, <<"b", " ", "c">>}

Fragments == {[i \in DOMAIN ts |-> Fragment(ts[i])] : ts \in SeqUpTo(FragTexts, MaxFrags)}

\* what one request's calls to the provider answer:
\*   list  the outcome of list_transcripts
\*   find  the outcome of find_transcript for each language
\*   fetch the outcome of Transcript.fetch for each language
\* A call may also be interrupted: KeyboardInterrupt is no Exception.
TranscriptProviders ==
    [list : {Return("transcript_list"), Raise("TranscriptsDisabled", ""),
             Raise("KeyboardInterrupt", "")},
     find : [en : {Return("en"), Raise("NoTranscriptFound", ""), Raise("Exception", ""),
                   Raise("KeyboardInterrupt", "")},
             hi : {Return("hi"), Raise("NoTranscriptFound", "")}],
     fetch : [en : {Return(f) : f \in Fragments}
                       \cup {Raise("Exception", ""), Raise("KeyboardInterrupt", "")},
              hi : {Return(<<Fragment(<<"h">>)>>), Raise("Exception", "")}]]

\* join putting the separator after every text, the last included
RECURSIVE join_trailing(_, _)
join_trailing(sep, texts) ==
    IF texts = <<>> THEN <<>>
    ELSE texts[1] \o sep \o join_trailing(sep, Tail(texts))

\* sep.join(texts)
RECURSIVE join(_, _)
join(sep, texts) ==
    IF texts = <<>> THEN <<>>
    ELSE IF Len(texts) = 1 THEN texts[1]
    ELSE texts[1] \o sep \o join(sep, Tail(texts))

\* find_with_fallback with a bare except: Hindi after any failure
find_with_fallback_any_error(provider) ==
    LET en == provider.find.en
    IN  IF en.kind = "raise"
        THEN [result |-> provider.find.hi,
              calls |-> <<"find_transcript:en", "find_transcript:hi">>]
        ELSE [result |-> en, calls |-> <<"find_transcript:en">>]

\* the inner try/except of fetch_transcript: the English transcript, the
\* Hindi one when find_transcript(['en']) raises NoTranscriptFound
find_with_fallback(provider) ==
    LET en == provider.find.en
    IN  IF en.kind = "raise" /\ en.exc = "NoTranscriptFound"
        THEN [result |-> provider.find.hi,
              calls |-> <<"find_transcript:en", "find_transcript:hi">>]
        ELSE [result |-> en, calls |-> <<"find_transcript:en">>]

\* lines 51-53: fetch the selected transcript and join its fragments' texts
fetch_transcript_fetch(language, fetched_transcript, found) ==
    IF fetched_transcript.kind = "raise"
    THEN [result |-> fetched_transcript, calls |-> found \o <<"fetch:" \o language>>]
    ELSE [result |-> Return(join(<<" ">>,
                        [i \in DOMAIN fetched_transcript.value |->
                            fetched_transcript.value[i].text])),
          calls |-> found \o <<"fetch:" \o language>>]

\* lines 46-51: after the selection of the transcript
fetch_transcript_found(transcript, provider) ==
    IF transcript.result.kind = "raise"
    THEN [result |-> transcript.result, calls |-> <<"list_transcripts">> \o transcript.calls]
    ELSE fetch_transcript_fetch(transcript.result.value,
                                provider.fetch[transcript.result.value],
                                <<"list_transcripts">> \o transcript.calls)

\* lines 43-46: after the extraction of the video id
fetch_transcript_list(video_id, provider) ==
    IF video_id.kind = "raise" THEN [result |-> video_id, calls |-> <<>>]
    ELSE IF provider.list.kind = "raise"
         THEN [result |-> provider.list, calls |-> <<"list_transcripts">>]
    ELSE fetch_transcript_found(find_with_fallback(provider), provider)

\* the body of the outer try of fetch_transcript
fetch_transcript_try(video_url, provider) ==
    fetch_transcript_list(extract_video_id(video_url), provider)

\* except Exception: return ""; a raise of another class passes
except_return_empty(r) ==
    IF r.result.kind = "raise" /\ IsException(r.result.exc)
    THEN [result |-> Return(<<>>), calls |-> r.calls]
    ELSE r

\* fetch_transcript without its except clause
fetch_transcript_uncaught(video_url, provider) ==
    fetch_transcript_try(video_url, provider)

fetch_transcript(video_url, provider) ==
    except_return_empty(fetch_transcript_try(video_url, provider))

----------------------------------------------------------------------------
(* The generation provider (google.generativeai) *)

Whitespace == {" ", "\n"}

GenChars == {" ", "\n", "a"}

\* what one request's calls to the provider answer:
\*   model    the outcome of genai.GenerativeModel(...)
\*   content  the outcome of model.generate_content(prompt), its value the
\*            response's text
\* (content is not asked for when the construction of the model raises)
GenProviders ==
    [model : {Return("model")},
     content : {Return(t) : t \in SeqUpTo(GenChars, MaxGenLen)}
                   \cup {Raise("Exception", ""), Raise("KeyboardInterrupt", "")}]
        \cup [model : {Raise("Exception", "")}, content : {Raise("Exception", "")}]

RECURSIVE lstrip(_)
lstrip(s) ==
    IF s # <<>> /\ Head(s) \in Whitespace THEN lstrip(Tail(s)) ELSE s

RECURSIVE rstrip(_)
rstrip(s) ==
    IF s # <<>> /\ s[Len(s)] \in Whitespace THEN rstrip(SubSeq(s, 1, Len(s) - 1)) ELSE s

\* strip forgetting the right end
strip_left_only(s) == lstrip(s)

\* str.strip()
strip(s) == rstrip(lstrip(s))

\* the body of the try of generate_mcqs: the model is constructed, asked
\* once, and the answer is response.text.strip()
generate_mcqs_try(transcript_text, gen) ==
    IF gen.model.kind = "raise"
    THEN [result |-> gen.model, calls |-> <<"GenerativeModel">>]
    ELSE IF gen.content.kind = "raise"
    THEN [result |-> gen.content, calls |-> <<"GenerativeModel", "generate_content">>]
    ELSE [result |-> Return(strip(gen.content.value)),
          calls |-> <<"GenerativeModel", "generate_content">>]

\* generate_mcqs without its except clause
generate_mcqs_uncaught(transcript_text, gen) ==
    generate_mcqs_try(transcript_text, gen)

generate_mcqs(transcript_text, gen) ==
    except_return_empty(generate_mcqs_try(transcript_text, gen))

----------------------------------------------------------------------------
(* The route POST /generate-quiz *)

\* the JSON documents of the model: null, arrays, and objects without
\* video_url or with one
JsonBodies(video_urls) ==
    {None, EmptyList, List(<<JsonInt(123)>>), EmptyDict, Dict([k \in {"other"} |-> JsonInt(123)])}
        \cup {Dict([k \in {"video_url"} |-> v]) : v \in video_urls}

\* request.json: a body that is not JSON raises (werkzeug's HTTPException)
request_json(body) ==
    IF body.kind = "json" THEN Return(body.json)
    ELSE Raise("HTTPException", "")

\* data.get(key): only a dict has get
get(data, key) ==
    IF data.type # "dict" THEN Raise("AttributeError", "get")
    ELSE IF key \in DOMAIN data.items THEN Return(data.items[key])
    ELSE Return(None)

Response(status, json) == [status |-> status, json |-> json]

Error(msg) == [error |-> msg]

\* lines 144-147: after generate_mcqs
generate_quiz_respond(mcqs_text, fetched) ==
    IF mcqs_text.result.kind = "raise"
    THEN [result |-> mcqs_text.result,
          calls |-> fetched \o <<"generate_mcqs">> \o mcqs_text.calls]
    ELSE IF mcqs_text.result.value = <<>>
    THEN [result |-> Return(Response(500, Error("Failed to generate MCQs"))),
          calls |-> fetched \o <<"generate_mcqs">> \o mcqs_text.calls]
    ELSE [result |-> Return(Response(200, [quiz |-> mcqs_text.result.value])),
          calls |-> fetched \o <<"generate_mcqs">> \o mcqs_text.calls]

\* generate_quiz_generate without the test of the transcript
generate_quiz_generate_unchecked(transcript, gen) ==
    IF transcript.result.kind = "raise"
    THEN [result |-> transcript.result, calls |-> <<"fetch_transcript">> \o transcript.calls]
    ELSE generate_quiz_respond(generate_mcqs(transcript.result.value, gen),
                               <<"fetch_transcript">> \o transcript.calls)

\* lines 140-143: after fetch_transcript
generate_quiz_generate(transcript, gen) ==
    IF transcript.result.kind = "raise"
    THEN [result |-> transcript.result, calls |-> <<"fetch_transcript">> \o transcript.calls]
    ELSE IF transcript.result.value = <<>>
    THEN [result |-> Return(Response(500, Error("Could not fetch transcript"))),
          calls |-> <<"fetch_transcript">> \o transcript.calls]
    ELSE generate_quiz_respond(generate_mcqs(transcript.result.value, gen),
                               <<"fetch_transcript">> \o transcript.calls)

\* lines 136-139: after data.get("video_url")
generate_quiz_fetch(video_url, provider, gen) ==
    IF video_url.kind = "raise" THEN [result |-> video_url, calls |-> <<>>]
    ELSE IF ~Truthy(video_url.value)
    THEN [result |-> Return(Response(400, Error("video_url is required"))), calls |-> <<>>]
    ELSE generate_quiz_generate(fetch_transcript(video_url.value, provider), gen)

\* lines 133-134: after request.json
generate_quiz_get(data, provider, gen) ==
    IF data.kind = "raise" THEN [result |-> data, calls |-> <<>>]
    ELSE generate_quiz_fetch(get(data.value, "video_url"), provider, gen)

\* the body of the try of generate_quiz
generate_quiz_try(body, provider, gen) ==
    generate_quiz_get(request_json(body), provider, gen)

\* except Exception: 500 Internal server error; a raise of another class
\* leaves the handler
except_internal_server_error(r) ==
    IF r.result.kind = "raise" /\ IsException(r.result.exc)
    THEN [result |-> Return(Response(500, Error("Internal server error"))), calls |-> r.calls]
    ELSE r

\* generate_quiz without its except clause
generate_quiz_uncaught(body, provider, gen) ==
    generate_quiz_try(body, provider, gen)

generate_quiz(body, provider, gen) ==
    except_internal_server_error(generate_quiz_try(body, provider, gen))

----------------------------------------------------------------------------
(* The state machine.  The service keeps nothing between requests, so a    *)
(* behaviour is one invocation: Init holds the pending call with its       *)
(* arguments and the answers the providers will give, the action of the    *)
(* called operation runs it to its end.                                    *)

\* the video_url values handed to fetch_transcript and sent in requests
VideoUrls ==
    {Url("youtu.be", <<"/", "a", "b">>, <<>>),
     Url("www.youtube.com", WatchPath, <<<<"v", "=", "a">>, <<"t", "=", "a">>>>),
     Url("youtube.com", WatchPath, <<<<"t", "=", "a">>>>),
     Url("example.com", WatchPath, <<<<"v", "=", "a">>>>),
     JsonInt(123), JsonBool(TRUE), List(<<JsonInt(123)>>)}

\* the values of video_url that Python takes as false
FalseValues == {EmptyStr, None, JsonBool(FALSE), JsonInt(0), EmptyDict, EmptyList}

Bodies ==
    {[kind |-> "json", json |-> j] : j \in JsonBodies(VideoUrls \cup FalseValues)}
        \cup {[kind |-> "text"]}

NoOutput == [kind |-> "pending"]

Init ==
    /\ \/ /\ op = "extract_video_id"
          /\ input \in [youtube_url : URLs]
       \/ /\ op = "fetch_transcript"
          /\ input \in [video_url : VideoUrls \cup FalseValues,
                          provider : TranscriptProviders]
       \/ /\ op = "generate_mcqs"
          /\ input \in [transcript_text : {<<"a">>}, gen : GenProviders]
       \/ /\ op = "generate_quiz"
          /\ input \in [body : Bodies, provider : TranscriptProviders, gen : GenProviders]
    /\ output = NoOutput
    /\ calls = <<>>

Pending(name) == op = name /\ output = NoOutput

ExtractVideoId ==
    /\ Pending("extract_video_id")
    /\ output' = extract_video_id(input.youtube_url)
    /\ UNCHANGED <<op, input, calls>>

FetchTranscript ==
    /\ Pending("fetch_transcript")
    /\ LET r == fetch_transcript(input.video_url, input.provider)
       IN  output' = r.result /\ calls' = r.calls
    /\ UNCHANGED <<op, input>>

GenerateMcqs ==
    /\ Pending("generate_mcqs")
    /\ LET r == generate_mcqs(input.transcript_text, input.gen)
       IN  output' = r.result /\ calls' = r.calls
    /\ UNCHANGED <<op, input>>

GenerateQuiz ==
    /\ Pending("generate_quiz")
    /\ LET r == generate_quiz(input.body, input.provider, input.gen)
       IN  output' = r.result /\ calls' = r.calls
    /\ UNCHANGED <<op, input>>

Next == ExtractVideoId \/ FetchTranscript \/ GenerateMcqs \/ GenerateQuiz

Spec == Init /\ [][Next]_vars

----------------------------------------------------------------------------
(* Vocabulary of the properties *)

Done(name) == op = name /\ output.kind # "pending"

Count(seq, x) == Cardinality({i \in DOMAIN seq : seq[i] = x})

Before(seq, x, y) ==
    \A i, j \in DOMAIN seq : seq[i] = x /\ seq[j] = y => i < j

Responded(status, json) == output = Return(Response(status, json))

\* the request body is a JSON object with a video_url that Python takes as true
HasVideoUrl ==
    /\ input.body.kind = "json"
    /\ input.body.json.type = "dict"
    /\ "video_url" \in DOMAIN input.body.json.items
    /\ Truthy(input.body.json.items.video_url)

\* the request body has no video_url field, or an empty one
LacksVideoUrl ==
    \/ input.body.kind # "json"
    \/ input.body.json.type # "dict"
    \/ "video_url" \notin DOMAIN input.body.json.items
    \/ input.body.json.items.video_url = EmptyStr

RequestUrl == input.body.json.items.video_url

\* how fetch_transcript ends for the request
RequestTranscript == fetch_transcript(RequestUrl, input.provider).result

\* fetch_transcript returns the empty string
TranscriptEmpty == RequestTranscript = Return(<<>>)

\* fetch_transcript returns text
TranscriptText == RequestTranscript.kind = "return" /\ RequestTranscript.value # <<>>

\* the generation provider raises, in the construction of the model or in
\* generate_content
GenRaises == input.gen.model.kind = "raise" \/ input.gen.content.kind = "raise"

\* what it raises then
GenRaise == IF input.gen.model.kind = "raise" THEN input.gen.model ELSE input.gen.content

\* the generation provider answers with white space alone
GenBlank ==
    /\ ~GenRaises
    /\ \A k \in DOMAIN input.gen.content.value : input.gen.content.value[k] \in Whitespace

\* the generation provider raises, or answers with white space alone
GenerationEmpty == GenRaises \/ GenBlank

\* the answers of the providers of the request
ProviderOutcomes ==
    <<input.provider.list, input.provider.find.en, input.provider.find.hi,
      input.provider.fetch.en, input.provider.fetch.hi, input.gen.model, input.gen.content>>

\* no provider raises outside the class Exception
OnlyExceptions ==
    \A i \in DOMAIN ProviderOutcomes :
        ProviderOutcomes[i].kind = "raise" => IsException(ProviderOutcomes[i].exc)

TranscriptCalls ==
    {"fetch_transcript", "list_transcripts", "find_transcript:en", "find_transcript:hi",
     "fetch:en", "fetch:hi"}

GenerationCalls == {"generate_mcqs", "GenerativeModel", "generate_content"}

\* t is v without the white space at its two ends
Trimmed(v, t) ==
    \E i, j \in DOMAIN v :
        /\ i <= j
        /\ v[i] \notin Whitespace
        /\ v[j] \notin Whitespace
        /\ \A k \in DOMAIN v : (k < i \/ k > j) => v[k] \in Whitespace
        /\ t = SubSeq(v, i, j)

----------------------------------------------------------------------------
(* The handler's answers *)

\* C1: a request whose body has no video_url field, or an empty one, is
\* answered 400 {"error": "video_url is required"} and no provider is called.
C1_MissingUrlIs400 ==
    Done("generate_quiz") /\ LacksVideoUrl
        => Responded(400, Error("video_url is required")) /\ calls = <<>>

\* C2: with a non-empty video_url, when fetch_transcript returns the empty
\* string the answer is 500 {"error": "Could not fetch transcript"} and
\* generate_mcqs is never called.
C2_EmptyTranscriptIs500 ==
    Done("generate_quiz") /\ HasVideoUrl /\ TranscriptEmpty
        => /\ Responded(500, Error("Could not fetch transcript"))
           /\ \A c \in GenerationCalls : Count(calls, c) = 0

C2_Witness ==
    /\ Done("generate_quiz") /\ HasVideoUrl /\ TranscriptEmpty
    /\ Count(calls, "fetch:en") = 1
    /\ Responded(500, Error("Could not fetch transcript"))

\* C3 as stated: with a non-empty transcript, when generation yields the
\* empty string (the provider raising any error included) the answer is 500
\* {"error": "Failed to generate MCQs"} and the generation provider has been
\* called exactly once.
C3_EmptyGenerationIs500 ==
    Done("generate_quiz") /\ HasVideoUrl /\ TranscriptText /\ GenerationEmpty
        => /\ Responded(500, Error("Failed to generate MCQs"))
           /\ Count(calls, "generate_content") = 1
           /\ Count(calls, "generate_mcqs") = 1

\* C3 amended: with a non-empty transcript, when the generation provider
\* answers white space alone or raises an error of class Exception, the
\* answer is 500 {"error": "Failed to generate MCQs"}; generate_mcqs has been
\* entered exactly once and generate_content asked exactly once, or not at
\* all when the construction of the model raised.  A raise outside the class
\* Exception leaves generate_mcqs and the handler: there is no response.
C3_EmptyGenerationIs500ForExceptions ==
    Done("generate_quiz") /\ HasVideoUrl /\ TranscriptText
        => /\ GenBlank \/ (GenRaises /\ IsException(GenRaise.exc))
                => /\ Responded(500, Error("Failed to generate MCQs"))
                   /\ Count(calls, "generate_mcqs") = 1
                   /\ Count(calls, "GenerativeModel") = 1
                   /\ Count(calls, "generate_content")
                        = (IF input.gen.model.kind = "raise" THEN 0 ELSE 1)
           /\ GenRaises /\ ~IsException(GenRaise.exc)
                => /\ output = GenRaise
                   /\ Count(calls, "generate_content") = 1

C3_Witness ==
    /\ Done("generate_quiz") /\ HasVideoUrl /\ TranscriptText
    /\ input.gen.content = Raise("Exception", "")
    /\ Count(calls, "generate_content") = 1
    /\ Responded(500, Error("Failed to generate MCQs"))

\* C4: with a non-empty transcript and a non-empty generated text the answer
\* is 200 {"quiz": t}, t being the provider's text without the white space
\* at its two ends.
C4_QuizIsTrimmedText ==
    Done("generate_quiz") /\ HasVideoUrl /\ TranscriptText /\ ~GenerationEmpty
        => /\ output.kind = "return"
           /\ output.value.status = 200
           /\ DOMAIN output.value.json = {"quiz"}
           /\ Trimmed(input.gen.content.value, output.value.json.quiz)

C4_Witness ==
    /\ Done("generate_quiz") /\ HasVideoUrl
    /\ input.gen.content = Return(<<" ", "a", "\n">>)
    /\ Responded(200, [quiz |-> <<"a">>])

\* C5 as stated: a video_url on which extract_video_id fails is answered
\* 500 {"error": "Internal server error"}.
C5_MalformedUrlIsInternalError ==
    Done("generate_quiz") /\ HasVideoUrl /\ extract_video_id(RequestUrl).kind = "raise"
        => Responded(500, Error("Internal server error"))

\* C5 amended: a video_url on which extract_video_id fails is answered
\* 500 {"error": "Could not fetch transcript"}; fetch_transcript catches the
\* failure, and neither provider is called.
C5_MalformedUrlIsTranscriptError ==
    Done("generate_quiz") /\ HasVideoUrl /\ extract_video_id(RequestUrl).kind = "raise"
        => /\ Responded(500, Error("Could not fetch transcript"))
           /\ calls = <<"fetch_transcript">>

C5_Witness ==
    /\ Done("generate_quiz") /\ HasVideoUrl
    /\ RequestUrl = Url("example.com", WatchPath, <<<<"v", "=", "a">>>>)
    /\ Responded(500, Error("Could not fetch transcript"))

\* C10 as stated: for every request and every outcome of the providers
\* generate_quiz ends in one of its five responses, never in an exception;
\* the response is 200 only if the transcript provider delivered text and
\* the generation provider delivered text other than white space;
\* fetch_transcript and generate_mcqs are each entered at most once, no
\* request to a provider is made twice (find_transcript is asked once for a
\* language), and every transcript call precedes the generation calls.
C10_HandlerIsTotal ==
    Done("generate_quiz")
        => /\ output.kind = "return"
           /\ \/ /\ output.value.status = 200
                 /\ DOMAIN output.value.json = {"quiz"}
                 /\ output.value.json.quiz # <<>>
              \/ Responded(400, Error("video_url is required"))
              \/ Responded(500, Error("Could not fetch transcript"))
              \/ Responded(500, Error("Failed to generate MCQs"))
              \/ Responded(500, Error("Internal server error"))
           /\ output.value.status = 200
                => /\ ~GenerationEmpty
                   /\ \E l \in {"en", "hi"} :
                        /\ Count(calls, "fetch:" \o l) = 1
                        /\ input.provider.fetch[l].kind = "return"
                        /\ \/ Len(input.provider.fetch[l].value) > 1
                           \/ \E i \in DOMAIN input.provider.fetch[l].value :
                                input.provider.fetch[l].value[i].text # <<>>
           /\ Count(calls, "fetch_transcript") <= 1
           /\ Count(calls, "generate_mcqs") <= 1
           /\ \A i, j \in DOMAIN calls : calls[i] = calls[j] => i = j
           /\ \A c \in TranscriptCalls, g \in GenerationCalls : Before(calls, c, g)

\* C10 amended: the same, for the errors of class Exception.  When no
\* provider raises outside the class Exception, generate_quiz ends in one of
\* its five responses; the only exception that leaves the handler is a raise
\* of a provider outside the class Exception (KeyboardInterrupt, SystemExit),
\* and then there is no response.  The conditions of the 200 response and on
\* the calls hold in every case.
C10_HandlerIsTotalForExceptions ==
    Done("generate_quiz")
        => /\ OnlyExceptions => output.kind = "return"
           /\ output.kind = "raise"
                => /\ ~IsException(output.exc)
                   /\ \E i \in DOMAIN ProviderOutcomes :
                        ProviderOutcomes[i].kind = "raise" /\ output = ProviderOutcomes[i]
           /\ output.kind = "return"
                => /\ \/ /\ output.value.status = 200
                         /\ DOMAIN output.value.json = {"quiz"}
                         /\ output.value.json.quiz # <<>>
                      \/ Responded(400, Error("video_url is required"))
                      \/ Responded(500, Error("Could not fetch transcript"))
                      \/ Responded(500, Error("Failed to generate MCQs"))
                      \/ Responded(500, Error("Internal server error"))
                   /\ output.value.status = 200
                        => /\ ~GenerationEmpty
                           /\ \E l \in {"en", "hi"} :
                                /\ Count(calls, "fetch:" \o l) = 1
                                /\ input.provider.fetch[l].kind = "return"
                                /\ \/ Len(input.provider.fetch[l].value) > 1
                                   \/ \E i \in DOMAIN input.provider.fetch[l].value :
                                        input.provider.fetch[l].value[i].text # <<>>
           /\ Count(calls, "fetch_transcript") <= 1
           /\ Count(calls, "generate_mcqs") <= 1
           /\ \A i, j \in DOMAIN calls : calls[i] = calls[j] => i = j
           /\ \A c \in TranscriptCalls, g \in GenerationCalls : Before(calls, c, g)

C10_Witness ==
    /\ Done("generate_quiz")
    /\ input.body.kind = "json" /\ input.body.json = None
    /\ Responded(500, Error("Internal server error"))

----------------------------------------------------------------------------
(* extract_video_id *)

ShortLinkNetlocs == {"youtu.be", "YouTu.be:443"}

CanonicalNetlocs == {"www.youtube.com", "youtube.com"}

OnShortLink == input.youtube_url.netloc \in ShortLinkNetlocs

OnCanonicalWatch ==
    /\ input.youtube_url.netloc \in CanonicalNetlocs
    /\ input.youtube_url.path = WatchPath

\* the piece is "v=" followed by a value
IsV(piece) == Len(piece) > 2 /\ piece[1] = "v" /\ piece[2] = "="

\* the value of such a piece, "+" read as a space
ValueOf(piece) ==
    [k \in 1..(Len(piece) - 2) |-> IF piece[k + 2] = "+" THEN " " ELSE piece[k + 2]]

\* s without its first character
IsWithoutFirst(t, s) ==
    /\ Len(t) = (IF s = <<>> THEN 0 ELSE Len(s) - 1)
    /\ \A k \in DOMAIN t : t[k] = s[k + 1]

\* the places of the query's v parameters with a value
VPlaces == {i \in DOMAIN input.youtube_url.query : IsV(input.youtube_url.query[i])}

FirstV == input.youtube_url.query[CHOOSE i \in VPlaces : \A j \in VPlaces : i <= j]

\* C6: on every URL that is neither on the short-link host nor the watch
\* path of the canonical host, extract_video_id returns no identifier: it
\* raises ValueError, the invalid-URL error.
C6_OtherUrlsAreInvalid ==
    Done("extract_video_id") /\ ~OnShortLink /\ ~OnCanonicalWatch
        => /\ output.kind = "raise"
           /\ output.exc = "ValueError"
           /\ output.msg \in {"Invalid YouTube URL", "Invalid IPv6 URL"}

C6_Witness ==
    /\ Done("extract_video_id")
    /\ input.youtube_url = Url("example.com", WatchPath, <<<<"v", "=", "a">>>>)
    /\ output = Raise("ValueError", "Invalid YouTube URL")

\* C7 as stated: on the short-link host extract_video_id returns the path
\* without its leading separator; on the watch path of the canonical host it
\* returns the value of the v query parameter.
C7_ReturnsIdentifier ==
    Done("extract_video_id")
        => /\ OnShortLink
                => /\ output.kind = "return"
                   /\ IsWithoutFirst(output.value, input.youtube_url.path)
           /\ OnCanonicalWatch
                => /\ output.kind = "return"
                   /\ VPlaces # {} => output.value = ValueOf(FirstV)

\* C7 amended: on the short-link host extract_video_id returns the path
\* without its leading separator; on the watch path of the canonical host it
\* returns the value of the first v query parameter that has a value,
\* whatever the other parameters, and raises KeyError when the query has no
\* v parameter with a value.
C7_ReturnsIdentifierWhenPresent ==
    Done("extract_video_id")
        => /\ OnShortLink
                => /\ output.kind = "return"
                   /\ IsWithoutFirst(output.value, input.youtube_url.path)
           /\ OnCanonicalWatch /\ VPlaces # {}
                => output = Return(ValueOf(FirstV))
           /\ OnCanonicalWatch /\ VPlaces = {}
                => output.kind = "raise" /\ output.exc = "KeyError"

C7_Witness ==
    /\ Done("extract_video_id")
    /\ input.youtube_url =
           Url("www.youtube.com", WatchPath, <<<<"t", "=", "a">>, <<"v", "=", "b">>>>)
    /\ output = Return(<<"b">>)

----------------------------------------------------------------------------
(* fetch_transcript *)

NotFound == Raise("NoTranscriptFound", "")

\* the video id is extracted and the transcripts are listed
Listed ==
    /\ extract_video_id(input.video_url).kind = "return"
    /\ input.provider.list.kind = "return"

\* the language whose transcript the provider's answers select, "" for none
Selected ==
    IF input.provider.find.en.kind = "return" THEN "en"
    ELSE IF input.provider.find.en = NotFound /\ input.provider.find.hi.kind = "return"
    THEN "hi"
    ELSE ""

\* some step of the retrieval fails
RetrievalFails ==
    \/ ~Listed
    \/ Selected = ""
    \/ input.provider.fetch[Selected].kind = "raise"

\* what the first failing step of the retrieval raises
Failure ==
    IF extract_video_id(input.video_url).kind = "raise" THEN extract_video_id(input.video_url)
    ELSE IF input.provider.list.kind = "raise" THEN input.provider.list
    ELSE IF input.provider.find.en.kind = "raise" /\ input.provider.find.en # NotFound
    THEN input.provider.find.en
    ELSE IF input.provider.find.en = NotFound /\ input.provider.find.hi.kind = "raise"
    THEN input.provider.find.hi
    ELSE input.provider.fetch[Selected]

\* C8 as stated: fetch_transcript fetches the English transcript when it is
\* found; it asks for the Hindi one exactly when the search for the English
\* one raised NoTranscriptFound; every failure of extraction, listing,
\* selection or fetch makes it return the empty string, and it never raises.
C8_FallbackOnlyOnNotFound ==
    Done("fetch_transcript")
        => /\ output.kind = "return"
           /\ Count(calls, "find_transcript:hi") = 1
                <=> Listed /\ input.provider.find.en = NotFound
           /\ Listed /\ input.provider.find.en.kind = "return"
                => calls = <<"list_transcripts", "find_transcript:en", "fetch:en">>
           /\ Listed /\ Selected = "hi"
                => calls = <<"list_transcripts", "find_transcript:en",
                             "find_transcript:hi", "fetch:hi">>
           /\ RetrievalFails => output = Return(<<>>)

\* C8 amended: the selection of the language as stated; every failure of
\* extraction, listing, selection or fetch whose error is of class Exception
\* makes fetch_transcript return the empty string, nothing reaching the
\* caller; an error outside the class Exception (KeyboardInterrupt,
\* SystemExit) is not caught and reaches the caller as raised; when no step
\* fails fetch_transcript returns.
C8_FallbackOnlyOnNotFoundForExceptions ==
    Done("fetch_transcript")
        => /\ Count(calls, "find_transcript:hi") = 1
                <=> Listed /\ input.provider.find.en = NotFound
           /\ Listed /\ input.provider.find.en.kind = "return"
                => calls = <<"list_transcripts", "find_transcript:en", "fetch:en">>
           /\ Listed /\ Selected = "hi"
                => calls = <<"list_transcripts", "find_transcript:en",
                             "find_transcript:hi", "fetch:hi">>
           /\ RetrievalFails /\ IsException(Failure.exc) => output = Return(<<>>)
           /\ RetrievalFails /\ ~IsException(Failure.exc) => output = Failure
           /\ ~RetrievalFails => output.kind = "return"

C8_Witness ==
    /\ Done("fetch_transcript")
    /\ input.provider.find.en = NotFound
    /\ calls = <<"list_transcripts", "find_transcript:en", "find_transcript:hi", "fetch:hi">>
    /\ output = Return(<<"h">>)

\* the number of characters before fragment i in the joined text
RECURSIVE Offset(_, _)
Offset(frags, i) ==
    IF i = 1 THEN 0 ELSE Offset(frags, i - 1) + Len(frags[i - 1].text) + 1

\* C9: the text fetch_transcript returns is the fragments' texts in their
\* order with exactly one space between two neighbours, nothing before the
\* first and nothing after the last.
C9_JoinKeepsOrder ==
    Done("fetch_transcript") /\ ~RetrievalFails
        => LET frags == input.provider.fetch[Selected].value
               n == Len(frags)
           IN  /\ output.kind = "return"
               /\ Len(output.value) = (IF n = 0 THEN 0 ELSE Offset(frags, n + 1) - 1)
               /\ \A i \in 1..n :
                    /\ SubSeq(output.value, Offset(frags, i) + 1,
                              Offset(frags, i) + Len(frags[i].text)) = frags[i].text
                    /\ i < n => output.value[Offset(frags, i + 1)] = " "

C9_Witness ==
    /\ Done("fetch_transcript")
    /\ input.provider.find.en.kind = "return"
    /\ input.provider.fetch.en = Return(<<Fragment(<<"a">>), Fragment(<<"b", " ", "c">>)>>)
    /\ output = Return(<<"a", " ", "b", " ", "c">>)

====
